---- MODULE Spec2Model ----
(***************************************************************************)
(* ResizeIt front end (src/src/App.tsx): the output list with its preview  *)
(* index, the selected file with its object URL, the geometry the preview  *)
(* effect computes for the canvas, and the Generate request.               *)
(*                                                                         *)
(* Indices are zero-based as in the source; a TLA+ sequence is one-based,  *)
(* so the entry the source calls outputs[i] is outputs[i + 1] here.        *)
(***************************************************************************)
EXTENDS Integers, Sequences, FiniteSets, TLC

VARIABLES
    outputs,        \* useState<OutputSpec[]>            (App.tsx:19)
    previewIndex,   \* useState<number>                  (App.tsx:23)
    maintainAspect, \* useState<boolean>                 (App.tsx:16)
    fit,            \* useState<FitMode>                 (App.tsx:17)
    pending,        \* Images created by the preview effect whose onload
                    \* has not run yet, each with what its closure captured
                    \*                                   (App.tsx:35-38,97)
    canvas,         \* what onload wrote to the canvas   (App.tsx:44-45,57,95)
    file,           \* useState<File | null>             (App.tsx:13)
    imageUrl,       \* useMemo: object URL of file, or null (App.tsx:25)
    urls,           \* urls[u]: how often the u-th object URL made for a
                    \* selected file has been revoked    (App.tsx:25,29)
    mounted,        \* the component is mounted, canvasRef.current is the
                    \* canvas                            (App.tsx:24,267)
    effects,        \* how many Images the preview effect has created
                    \*                                   (App.tsx:37)
    inflight,       \* fetch calls not yet settled       (App.tsx:134)
    notices,        \* the alerts shown, oldest first    (App.tsx:116,121,142)
    downloads,      \* the downloads started, oldest first (App.tsx:168)
    calls,          \* how often handleGenerate was called (App.tsx:114)
    lastOp          \* the call that produced this state, with its arguments

vars == <<outputs, previewIndex, maintainAspect, fit, pending, canvas, file,
          imageUrl, urls, mounted, effects, inflight, notices, downloads,
          calls, lastOp>>

(***************************************************************************)
(* Bounds of the model.                                                    *)
(***************************************************************************)
MaxOutputs == 3
MaxDirectOutputs == 2
\* Images the preview effect creates, object URLs made for selected files,
\* calls of handleGenerate
MaxEffectRuns == 2
MaxPreviewOutputs == 2
MaxUrls == 2
MaxGenerates == 2

(***************************************************************************)
(* Values                                                                  *)
(***************************************************************************)
Formats == {"png", "jpeg", "webp"}
Fields == {"width", "height", "format"}

DefaultDim == 512
MinDim == 1
MaxDim == 8000

DefaultOutput == [width |-> DefaultDim, height |-> DefaultDim, format |-> "png"]

\* Values the number inputs and the format select hand to updateOutput.
WidthInputs == {0}
HeightInputs == {9000}
FormatInputs == {"webp"}

\* Partial<OutputSpec>: any subset of the fields, each with a value of its type.
Patches ==
    { [f \in S |-> full[f]] :
        S \in SUBSET Fields,
        full \in [width : WidthInputs, height : HeightInputs, format : FormatInputs] }

\* The patches the form produces: exactly one field per change event.
FormPatches == { p \in Patches : Cardinality(DOMAIN p) = 1 }

NoPatch == [f \in {} |-> 0]

Max(a, b) == IF a > b THEN a ELSE b
Min(a, b) == IF a < b THEN a ELSE b

\* a call and its arguments; no function of the source has a throw
\* statement, so no call ends in an error outcome
Op(name, index, patch) == [name |-> name, index |-> index, patch |-> patch, threw |-> FALSE]
OpNoArgs(name) == Op(name, -1, NoPatch)

(***************************************************************************)
(* Output list operations                                                  *)
(***************************************************************************)
\* { ...o, ...patch }
Merge(o, patch) ==
    [f \in DOMAIN o \cup DOMAIN patch |-> IF f \in DOMAIN patch THEN patch[f] ELSE o[f]]

\* prev.map((o, i) => (i === index ? { ...o, ...patch } : o))
\* variant: the patch is spread over a fresh default entry
MapPatchOntoDefault(prev, index, patch) ==
    [i \in 1..Len(prev) |-> IF i - 1 = index THEN Merge(DefaultOutput, patch) ELSE prev[i]]

\* variant: an index outside the list is clamped into it
MapPatchClamped(prev, index, patch) ==
    [i \in 1..Len(prev) |->
        IF i - 1 = Max(0, Min(index, Len(prev) - 1)) THEN Merge(prev[i], patch) ELSE prev[i]]

\* the code
MapPatch(prev, index, patch) ==
    [i \in 1..Len(prev) |-> IF i - 1 = index THEN Merge(prev[i], patch) ELSE prev[i]]

\* prev.filter((_, i) => i !== index)
RECURSIVE FilterFrom(_, _, _)
FilterFrom(prev, index, i) ==
    IF i > Len(prev) THEN <<>>
    ELSE IF i - 1 # index THEN <<prev[i]>> \o FilterFrom(prev, index, i + 1)
    ELSE FilterFrom(prev, index, i + 1)

FilterIndex(prev, index) == FilterFrom(prev, index, 1)

\* [...prev, { width: 512, height: 512, format: "png" }]
\* variant: the new entry is put first
PrependDefault(prev) == <<DefaultOutput>> \o prev

AppendDefault(prev) == Append(prev, DefaultOutput)

\* the index addOutput passes to setPreviewIndex: outputs.length
AddedIndex(outs) == Len(outs)

\* (i) => Math.max(0, Math.min(i, outputs.length - 2))
\* variant: outputs.length - 1
RepointOffByOne(i, outs) == Max(0, Min(i, Len(outs) - 1))

\* variant: without Math.max(0, ...)
RepointNoFloor(i, outs) == Min(i, Len(outs) - 2)

Repoint(i, outs) == Max(0, Min(i, Len(outs) - 2))

(***************************************************************************)
(* The selected file, its object URL and the preview effect                *)
(***************************************************************************)
\* the files the user can pick, with the size they decode to
Files ==
    { [name |-> "wide.png", width |-> 1000, height |-> 500],
      [name |-> "tall.png", width |-> 500, height |-> 1000] }

\* useState<File | null>(null)
NoFile == [name |-> "", width |-> 0, height |-> 0]

\* imageUrl = null; the object URLs are numbered from 1 in the order of
\* their creation
NoUrl == 0

\* what the effect run's closure captured (spec, maintainAspect, fit) and
\* the natural size its Image decodes to (img.width, img.height)
Closure(spec, ma, fitMode, srcW, srcH) ==
    [spec |-> spec, maintainAspect |-> ma, fit |-> fitMode, srcW |-> srcW, srcH |-> srcH]

\* new Image() with its onload closure and img.src = imageUrl; run is the
\* number of the effect run that created it
NewImage(c, url, run) ==
    [spec |-> c.spec, maintainAspect |-> c.maintainAspect, fit |-> c.fit,
     srcW |-> c.srcW, srcH |-> c.srcH, src |-> url, run |-> run]

\* lines 33-98, run after a render in which one of its dependencies
\* changed: the values it reads are those of the new render
PreviewEffect ==
    IF \/ file' = NoFile
       \/ imageUrl' = NoUrl
       \/ previewIndex' \notin 0..(Len(outputs') - 1)
    THEN UNCHANGED <<pending, effects>>
    ELSE /\ effects' = effects + 1
         /\ pending' = Append(pending,
                NewImage(Closure(outputs'[previewIndex' + 1], maintainAspect',
                                 fit', file'.width, file'.height),
                         imageUrl', effects + 1))

\* an event is handled while the component is mounted; the model stops
\* creating Images after MaxEffectRuns
CanHandle == mounted /\ (file = NoFile \/ effects < MaxEffectRuns)

generateUnchanged == UNCHANGED <<inflight, notices, downloads, calls>>

fileUnchanged == UNCHANGED <<file, imageUrl, urls, mounted>>

\* a list handler leaves the other state alone; the new list or index is a
\* changed dependency of the preview effect
previewUnchanged ==
    /\ UNCHANGED <<maintainAspect, fit, canvas>>
    /\ fileUnchanged
    /\ generateUnchanged

\* A handler runs to its end before React renders again, and React renders
\* before the next event is handled: the `outputs` a handler closes over is
\* the current list, and both of its state updates land in one step.
updateOutput(index, patch) ==
    /\ CanHandle
    /\ outputs' = MapPatch(outputs, index, patch)
    /\ lastOp' = Op("updateOutput", index, patch)
    /\ UNCHANGED previewIndex
    /\ previewUnchanged
    /\ PreviewEffect

addOutput ==
    /\ CanHandle
    /\ outputs' = AppendDefault(outputs)
    /\ previewIndex' = AddedIndex(outputs)
    /\ lastOp' = OpNoArgs("addOutput")
    /\ previewUnchanged
    /\ PreviewEffect

removeOutput(index) ==
    /\ CanHandle
    /\ outputs' = FilterIndex(outputs, index)
    /\ previewIndex' = Repoint(previewIndex, outputs)
    /\ lastOp' = Op("removeOutput", index, NoPatch)
    /\ previewUnchanged
    /\ PreviewEffect

\* setting the index it already has does not render again
setPreviewIndex(index) ==
    /\ CanHandle
    /\ previewIndex' = index
    /\ lastOp' = Op("setPreviewIndex", index, NoPatch)
    /\ UNCHANGED outputs
    /\ previewUnchanged
    /\ IF index = previewIndex THEN UNCHANGED <<pending, effects>>
       ELSE PreviewEffect

(***************************************************************************)
(* The form: what the rendered controls let the user do                    *)
(***************************************************************************)
\* outputs.map((o, i) => ...): one row of controls per current entry
Rows == 0..(Len(outputs) - 1)

ClickAdd ==
    /\ Len(outputs) < MaxOutputs
    /\ addOutput

ChangeField == \E i \in Rows, p \in FormPatches : updateOutput(i, p)

ClickPreview == \E i \in Rows : setPreviewIndex(i)

\* {outputs.length > 1 && <button onClick={() => removeOutput(i)}>}
\* variant: the Remove button is always rendered
RemoveAlwaysShown == TRUE

RemoveShown == Len(outputs) > 1

ClickRemove ==
    /\ RemoveShown
    /\ \E i \in Rows : removeOutput(i)

\* the <canvas> element before any onload has written to it
BlankCanvas == [drawn |-> FALSE, width |-> 0, height |-> 0, dx |-> 0, dy |-> 0, drawW |-> 0, drawH |-> 0]

Init ==
    /\ outputs = <<DefaultOutput>>
    /\ previewIndex = 0
    /\ maintainAspect = TRUE
    /\ fit = "cover"
    /\ pending = <<>>
    /\ canvas = BlankCanvas
    /\ file = NoFile
    /\ imageUrl = NoUrl
    /\ urls = <<>>
    /\ mounted = TRUE
    /\ effects = 0
    /\ inflight = <<>>
    /\ notices = <<>>
    /\ downloads = <<>>
    /\ calls = 0
    /\ lastOp = OpNoArgs("init")

Next ==
    \/ ClickAdd
    \/ ChangeField
    \/ ClickPreview
    \/ ClickRemove

Spec == Init /\ [][Next]_vars

(***************************************************************************)
(* Direct calls: the three list functions called with any index and patch, *)
(* without the form's enumeration and without its Remove guard             *)
(***************************************************************************)
CallIndices == -1..Len(outputs)

CallAdd ==
    /\ Len(outputs) < MaxDirectOutputs
    /\ addOutput

CallUpdate == \E i \in CallIndices, p \in Patches : updateOutput(i, p)

CallRemove == \E i \in CallIndices : removeOutput(i)

CallSetPreview == \E i \in Rows : setPreviewIndex(i)

NextDirect ==
    \/ CallAdd
    \/ CallUpdate
    \/ CallRemove
    \/ CallSetPreview

SpecDirect == Init /\ [][NextDirect]_vars

(***************************************************************************)
(* JavaScript numbers: IEEE 754 binary64, round to nearest, ties to even.  *)
(* A positive finite number is [hi, lo, e] with significand               *)
(* hi * 2^27 + lo in [2^52, 2^53) and value significand * 2^e. The         *)
(* significand is kept in two limbs because it exceeds the 32-bit integers *)
(* TLC computes with. Every number the preview arithmetic meets is         *)
(* positive, normal and finite.                                            *)
(***************************************************************************)
SignificandBits == 53
LimbBits == 27
Limb == 2^LimbBits
TopLimbBits == SignificandBits - LimbBits

\* number of bits of a positive integer below 2^30
BitLen(n) == CHOOSE k \in 1..30 : 2^(k - 1) <= n /\ n < 2^k

Big(hi, lo) == [hi |-> hi, lo |-> lo]
BigGeq(x, y) == x.hi > y.hi \/ (x.hi = y.hi /\ x.lo >= y.lo)
BigSub(x, y) ==
    IF x.lo >= y.lo THEN Big(x.hi - y.hi, x.lo - y.lo)
    ELSE Big(x.hi - y.hi - 1, x.lo + Limb - y.lo)
BigDouble(x) == Big(2 * x.hi + (2 * x.lo) \div Limb, (2 * x.lo) % Limb)
BigInc(x) == IF x.lo + 1 = Limb THEN Big(x.hi + 1, 0) ELSE Big(x.hi, x.lo + 1)

\* 2^n as a two-limb integer
BigBit(n) == IF n >= LimbBits THEN Big(2^(n - LimbBits), 0) ELSE Big(0, 2^n)
BigAdd(x, y) == Big(x.hi + y.hi + (x.lo + y.lo) \div Limb, (x.lo + y.lo) % Limb)

\* the next n bits of the quotient rem / den (rem < den) by long division,
\* the first of them of weight 2^(pos - 1), and the remainder left after
\* them; the run of bits is split in halves to keep the recursion shallow
RECURSIVE QuotientBits(_, _, _, _)
QuotientBits(rem, den, pos, n) ==
    IF n = 0 THEN [quo |-> Big(0, 0), rem |-> rem]
    ELSE IF n = 1
    THEN LET r2 == BigDouble(rem)
         IN  IF BigGeq(r2, den)
             THEN [quo |-> BigBit(pos - 1), rem |-> BigSub(r2, den)]
             ELSE [quo |-> Big(0, 0), rem |-> r2]
    ELSE LET h == n \div 2
             first == QuotientBits(rem, den, pos, h)
             second == QuotientBits(first.rem, den, pos - h, n - h)
         IN  [quo |-> BigAdd(first.quo, second.quo), rem |-> second.rem]

\* significand sig (53 bits) with exponent e, rounded up by one unit in the
\* last place when up holds; a carry out of the top bit renormalises
RoundUlp(sig, e, up) ==
    LET r == IF up THEN BigInc(sig) ELSE sig
    IN  IF r.hi = 2^TopLimbBits
        THEN [hi |-> 2^(TopLimbBits - 1), lo |-> 0, e |-> e + 1]
        ELSE [hi |-> r.hi, lo |-> r.lo, e |-> e]

\* the binary64 nearest to (num / den) * 2^e, for den <= num < 2 * den
RoundQuotient(num, den, e) ==
    LET d == QuotientBits(BigSub(num, den), den, SignificandBits - 1, SignificandBits - 1)
        sig == BigAdd(BigBit(SignificandBits - 1), d.quo)
        twice == BigDouble(d.rem)
        up == IF twice = den THEN sig.lo % 2 = 1 ELSE BigGeq(twice, den)
    IN  RoundUlp(sig, e - (SignificandBits - 1), up)

\* the binary64 nearest to (num / den) * 2^e, for den / 2 < num < 2 * den
NormalQuotient(num, den, e) ==
    IF BigGeq(num, den) THEN RoundQuotient(num, den, e)
    ELSE RoundQuotient(BigDouble(num), den, e - 1)

\* a / b for positive integers a, b (below 2^26)
DivInts(a, b) ==
    LET k == BitLen(a) - BitLen(b)
        num == IF k >= 0 THEN a ELSE a * 2^(-k)
        den == IF k >= 0 THEN b * 2^k ELSE b
    IN  NormalQuotient(Big(0, num), Big(0, den), k)

\* c / x for a positive integer c (below 2^26) and a number x
DivIntFloat(c, x) ==
    LET n == BitLen(c)
        num == Big(c * 2^(TopLimbBits - n), 0)
    IN  NormalQuotient(num, Big(x.hi, x.lo), n - SignificandBits - x.e)

\* c * x for a positive integer c (below 2^13) and a number x: the exact
\* product in three limbs, then rounded to 53 bits
MulIntFloat(c, x) ==
    LET l1 == x.lo \div 2^14
        l0 == x.lo % 2^14
        h1 == x.hi \div 2^13
        h0 == x.hi % 2^13
        lowSum == ((c * l1) % 2^13) * 2^14 + c * l0
        low == lowSum % Limb
        midSum == ((c * h1) % 2^14) * 2^13 + c * h0
                    + lowSum \div Limb + (c * l1) \div 2^13
        mid == midSum % Limb
        top == midSum \div Limb + (c * h1) \div 2^14
        \* the product is top * 2^54 + mid * 2^27 + low; sh bits are dropped
        sh == IF top > 0 THEN BitLen(top) + 1
              ELSE IF mid >= 2^TopLimbBits THEN 1 ELSE 0
        sig == Big(mid \div 2^sh + (top % 2^sh) * 2^(LimbBits - sh),
                   low \div 2^sh + (mid % 2^sh) * 2^(LimbBits - sh))
        rest == low % 2^sh
        half == IF sh = 0 THEN 1 ELSE 2^(sh - 1)
        up == IF sh = 0 THEN FALSE
              ELSE IF rest = half THEN sig.lo % 2 = 1 ELSE rest > half
    IN  RoundUlp(sig, x.e + sh, up)

\* x > y
Greater(x, y) ==
    \/ x.e > y.e
    \/ x.e = y.e /\ x.hi > y.hi
    \/ x.e = y.e /\ x.hi = y.hi /\ x.lo > y.lo

\* Math.floor(x) and whether x has a fractional part, for 0 < x < 2^31
IntPart(x) ==
    LET s == -x.e
    IN  IF s >= SignificandBits THEN 0
        ELSE IF s >= LimbBits THEN x.hi \div 2^(s - LimbBits)
        ELSE x.hi * 2^(LimbBits - s) + x.lo \div 2^s

HasFraction(x) ==
    LET s == -x.e
    IN  IF s >= SignificandBits THEN TRUE
        ELSE IF s >= LimbBits THEN x.lo # 0 \/ x.hi % 2^(s - LimbBits) # 0
        ELSE x.lo % 2^s # 0

Floor(x) == IntPart(x)
Ceil(x) == IF HasFraction(x) THEN IntPart(x) + 1 ELSE IntPart(x)

(***************************************************************************)
(* The preview effect's onload callback                                    *)
(***************************************************************************)
FitModes == {"cover", "contain"}

\* Math.max(1, Math.min(8000, Math.floor(v))); the stored values of the
\* model are integers, which Math.floor leaves as they are
\* variant: the upper limit left out
TargetDimNoCap(v) == Max(MinDim, v)

TargetDim(v) == Max(MinDim, Min(MaxDim, v))

\* Math.floor((target - draw) / 2): the difference and its half are exact
\* variant: the operands of the difference exchanged
CentreSignSlip(target, draw) == (draw - target) \div 2

Centre(target, draw) == (target - draw) \div 2

\* Math.ceil: the rounding of the scaled dimension in the cover branch
CoverRound(x) == Ceil(x)

\* Math.floor: the rounding of the scaled dimension in the contain branch
ContainRound(x) == Floor(x)

\* srcAR > dstAR
\* variant: the comparison turned round
WiderInverted(srcAR, dstAR) == Greater(dstAR, srcAR)

Wider(srcAR, dstAR) == Greater(srcAR, dstAR)

Rect(dx, dy, drawW, drawH) == [dx |-> dx, dy |-> dy, drawW |-> drawW, drawH |-> drawH]

\* lines 62-94: dx, dy, drawW, drawH for maintainAspect = true
Geometry(srcW, srcH, targetW, targetH, fitMode) ==
    LET srcAR == DivInts(srcW, srcH)
        dstAR == DivInts(targetW, targetH)
    IN  IF fitMode = "cover"
        THEN IF Wider(srcAR, dstAR)
             THEN LET drawW == CoverRound(MulIntFloat(targetH, srcAR))
                  IN  Rect(Centre(targetW, drawW), 0, drawW, targetH)
             ELSE LET drawH == CoverRound(DivIntFloat(targetW, srcAR))
                  IN  Rect(0, Centre(targetH, drawH), targetW, drawH)
        ELSE IF Wider(srcAR, dstAR)
             THEN LET drawH == ContainRound(DivIntFloat(targetW, srcAR))
                  IN  Rect(0, Centre(targetH, drawH), targetW, drawH)
             ELSE LET drawW == ContainRound(MulIntFloat(targetH, srcAR))
                  IN  Rect(Centre(targetW, drawW), 0, drawW, targetH)

\* lines 55-59 and 95: the destination rectangle passed to ctx.drawImage
\* variant: the stretch branch left out
DrawRectAlwaysFit(c, targetW, targetH) ==
    Geometry(c.srcW, c.srcH, targetW, targetH, c.fit)

DrawRect(c, targetW, targetH) ==
    IF ~c.maintainAspect THEN Rect(0, 0, targetW, targetH)
    ELSE Geometry(c.srcW, c.srcH, targetW, targetH, c.fit)

\* img.onload of one pending Image, lines 38-96
Painted(c) ==
    LET targetW == TargetDim(c.spec.width)
        targetH == TargetDim(c.spec.height)
        r == DrawRect(c, targetW, targetH)
    IN  [drawn |-> TRUE, width |-> targetW, height |-> targetH,
         dx |-> r.dx, dy |-> r.dy, drawW |-> r.drawW, drawH |-> r.drawH]

RemoveAt(s, k) == SubSeq(s, 1, k - 1) \o SubSeq(s, k + 1, Len(s))

\* after the unmount canvasRef.current is null and onload returns at once
OnLoad ==
    \E k \in 1..Len(pending) :
        /\ canvas' = IF mounted THEN Painted(pending[k]) ELSE canvas
        /\ pending' = RemoveAt(pending, k)
        /\ lastOp' = OpNoArgs("onload")
        /\ UNCHANGED <<outputs, previewIndex, maintainAspect, fit, effects>>
        /\ fileUnchanged
        /\ generateUnchanged

(***************************************************************************)
(* The preview: file selection, the aspect controls, the list controls,    *)
(* the Images' load events in any order, and the unmount                   *)
(***************************************************************************)
\* URL.revokeObjectURL(imageUrl) behind `if (imageUrl)`, line 29
\* variant: the cleanup does not revoke
RevokeNothing(us, u) == us

Revoke(us, u) == IF u = NoUrl THEN us ELSE [us EXCEPT ![u] = @ + 1]

\* onChange of the file input with a chosen file: setFile(file); the render
\* makes a new object URL (useMemo), the cleanup of the effect of lines
\* 27-31 revokes the one of the render before, and the preview effect runs
SelectFile ==
    \E f \in Files :
        /\ mounted
        /\ effects < MaxEffectRuns
        /\ Len(urls) < MaxUrls
        /\ file' = f
        /\ imageUrl' = Len(urls) + 1
        /\ urls' = Append(Revoke(urls, imageUrl), 0)
        /\ lastOp' = OpNoArgs("setFile")
        /\ UNCHANGED <<outputs, previewIndex, maintainAspect, fit, canvas, mounted>>
        /\ generateUnchanged
        /\ PreviewEffect

\* onChange of the file input with no file chosen: setFile(null)
ClearFile ==
    /\ mounted
    /\ file # NoFile
    /\ file' = NoFile
    /\ imageUrl' = NoUrl
    /\ urls' = Revoke(urls, imageUrl)
    /\ lastOp' = OpNoArgs("clearFile")
    /\ UNCHANGED <<outputs, previewIndex, maintainAspect, fit, canvas, mounted>>
    /\ generateUnchanged
    /\ PreviewEffect

\* onChange of the checkbox, line 200
ToggleMaintainAspect ==
    /\ CanHandle
    /\ maintainAspect' = ~maintainAspect
    /\ lastOp' = OpNoArgs("setMaintainAspect")
    /\ UNCHANGED <<outputs, previewIndex, fit, canvas>>
    /\ fileUnchanged
    /\ generateUnchanged
    /\ PreviewEffect

\* onChange of the fit select, rendered only with maintainAspect (line 204)
ChangeFit ==
    /\ CanHandle
    /\ maintainAspect
    /\ \E fitMode \in FitModes \ {fit} : fit' = fitMode
    /\ lastOp' = OpNoArgs("setFit")
    /\ UNCHANGED <<outputs, previewIndex, maintainAspect, canvas>>
    /\ fileUnchanged
    /\ generateUnchanged
    /\ PreviewEffect

\* an Image whose object URL was revoked before it was fetched fails to
\* load; no onerror handler is set, so nothing happens
LoadFails ==
    \E k \in 1..Len(pending) :
        /\ urls[pending[k].src] > 0
        /\ pending' = RemoveAt(pending, k)
        /\ lastOp' = OpNoArgs("onerror")
        /\ UNCHANGED <<outputs, previewIndex, maintainAspect, fit, canvas, effects>>
        /\ fileUnchanged
        /\ generateUnchanged

\* the component unmounts: the cleanup of the effect of lines 27-31 runs
\* once more
Teardown ==
    /\ mounted
    /\ mounted' = FALSE
    /\ urls' = Revoke(urls, imageUrl)
    /\ lastOp' = OpNoArgs("unmount")
    /\ UNCHANGED <<outputs, previewIndex, maintainAspect, fit, canvas, file,
                   imageUrl, pending, effects>>
    /\ generateUnchanged

\* the list controls of the preview model: at most MaxPreviewOutputs rows,
\* edited through their width input
PreviewAdd ==
    /\ Len(outputs) < MaxPreviewOutputs
    /\ addOutput

WidthPatches == {p \in FormPatches : DOMAIN p = {"width"}}

ChangeWidth == \E i \in Rows, p \in WidthPatches : updateOutput(i, p)

NextPreview ==
    \/ SelectFile
    \/ ClearFile
    \/ ToggleMaintainAspect
    \/ ChangeFit
    \/ PreviewAdd
    \/ ChangeWidth
    \/ ClickPreview
    \/ ClickRemove
    \/ OnLoad
    \/ LoadFails
    \/ Teardown

SpecPreview == Init /\ [][NextPreview]_vars

\* file selections, the aspect controls, the load events and the unmount,
\* with the default output list
NextFile ==
    \/ SelectFile
    \/ ClearFile
    \/ ToggleMaintainAspect
    \/ ChangeFit
    \/ OnLoad
    \/ LoadFails
    \/ Teardown

SpecFile == Init /\ [][NextFile]_vars

(***************************************************************************)
(* Generate & Download: handleGenerate up to its fetch, and the ways the   *)
(* fetch settles. The Authorization header (token) is not modelled.        *)
(***************************************************************************)
GenericFailure == "Failed to resize"

\* lines 115-123: the alert handleGenerate returns with, "" when it goes on
\* variant: the check of the output list left out
ValidationFileOnly(f, outs) ==
    IF f = NoFile THEN "Please upload a file first" ELSE ""

Validation(f, outs) ==
    IF f = NoFile THEN "Please upload a file first"
    ELSE IF Len(outs) = 0 THEN "Please add at least one output"
    ELSE ""

\* lines 125-129: the form data, with the file and the list the handler
\* closes over (lines 163-164 read them again)
Request(f, outs, ma, fitMode) ==
    [file |-> f.name, outputs |-> outs,
     maintainAspect |-> IF ma THEN "true" ELSE "false",
     fit |-> IF ma THEN fitMode ELSE "absent"]

\* the click on Generate & Download, lines 114-138
HandleGenerate ==
    /\ mounted
    /\ calls < MaxGenerates
    /\ calls' = calls + 1
    /\ LET notice == Validation(file, outputs)
       IN  IF notice # ""
           THEN /\ notices' = Append(notices, notice)
                /\ UNCHANGED inflight
           ELSE /\ inflight' = Append(inflight,
                                      Request(file, outputs, maintainAspect, fit))
                /\ UNCHANGED notices
    /\ lastOp' = OpNoArgs("handleGenerate")
    /\ UNCHANGED <<outputs, previewIndex, maintainAspect, fit, pending, canvas,
                   effects, downloads>>
    /\ fileUnchanged

\* the fetch promise rejects (the service cannot be reached): the await of
\* line 134 throws out of handleGenerate, nothing catches it
FetchRejects ==
    \E k \in 1..Len(inflight) :
        /\ inflight' = RemoveAt(inflight, k)
        /\ lastOp' = OpNoArgs("fetchRejected")
        /\ UNCHANGED <<outputs, previewIndex, maintainAspect, fit, pending,
                       canvas, effects, notices, downloads, calls>>
        /\ fileUnchanged

\* the body of a non-success response: its text, or a body whose text()
\* rejects
ErrorBodies ==
    { [readable |-> TRUE, text |-> "Invalid token"],
      [readable |-> TRUE, text |-> ""],
      [readable |-> FALSE, text |-> ""] }

\* await res.text().catch(() => "Failed to resize"), line 141
ResponseText(body) == IF body.readable THEN body.text ELSE GenericFailure

\* msg || "Failed to resize", line 142
NoticeOf(msg) == IF msg = "" THEN GenericFailure ELSE msg

\* lines 140-144
ResponseNotOk ==
    \E k \in 1..Len(inflight), body \in ErrorBodies :
        /\ inflight' = RemoveAt(inflight, k)
        /\ notices' = Append(notices, NoticeOf(ResponseText(body)))
        /\ lastOp' = OpNoArgs("responseNotOk")
        /\ UNCHANGED <<outputs, previewIndex, maintainAspect, fit, pending,
                       canvas, effects, downloads, calls>>
        /\ fileUnchanged

\* lines 153-167: a.download. The name the server sent, the default zip
\* name, or the name made of the file's base name and the first entry of
\* the list the handler closed over (kept here as the file and the entry)
DownloadName(req, zip, named) ==
    IF named THEN [kind |-> "server", file |-> "", spec |-> DefaultOutput]
    ELSE IF zip THEN [kind |-> "resized.zip", file |-> "", spec |-> DefaultOutput]
    ELSE [kind |-> "synthesized", file |-> req.file, spec |-> req.outputs[1]]

\* lines 146-169: a success response, application/zip or not, with or
\* without a filename in content-disposition
ResponseOk ==
    \E k \in 1..Len(inflight), zip \in BOOLEAN, named \in BOOLEAN :
        /\ inflight' = RemoveAt(inflight, k)
        /\ downloads' = Append(downloads, DownloadName(inflight[k], zip, named))
        /\ lastOp' = OpNoArgs("responseOk")
        /\ UNCHANGED <<outputs, previewIndex, maintainAspect, fit, pending,
                       canvas, effects, notices, calls>>
        /\ fileUnchanged

NextGenerate ==
    \/ SelectFile
    \/ ToggleMaintainAspect
    \/ CallAdd
    \/ CallRemove
    \/ HandleGenerate
    \/ FetchRejects
    \/ ResponseNotOk
    \/ ResponseOk

SpecGenerate == Init /\ [][NextGenerate]_vars

(***************************************************************************)
(* The compositor on its own: one effect run for each source size, stored  *)
(* target size, maintainAspect and fit of the bounded sets, then its       *)
(* onload                                                                  *)
(***************************************************************************)
MaxSmallDim == 4

SmallDims == 1..MaxSmallDim
SourceDims == SmallDims \cup {49, 97, 500, 1000}
StoredDims == SmallDims \cup {-3, 0, 49, 512, 600, 800, 9000}

InitGeom ==
    \E srcW \in SourceDims, srcH \in SourceDims,
       w \in StoredDims, h \in StoredDims,
       ma \in BOOLEAN, fitMode \in FitModes :
        /\ outputs = <<[width |-> w, height |-> h, format |-> "png"]>>
        /\ previewIndex = 0
        /\ maintainAspect = ma
        /\ fit = fitMode
        /\ file = [name |-> "source.png", width |-> srcW, height |-> srcH]
        /\ imageUrl = 1
        /\ urls = <<0>>
        /\ mounted = TRUE
        /\ effects = 1
        /\ pending = <<NewImage(Closure(outputs[1], ma, fitMode, srcW, srcH),
                                imageUrl, effects)>>
        /\ canvas = BlankCanvas
        /\ inflight = <<>>
        /\ notices = <<>>
        /\ downloads = <<>>
        /\ calls = 0
        /\ lastOp = OpNoArgs("effect")

NextGeom == OnLoad

SpecGeom == InitGeom /\ [][NextGeom]_vars

(***************************************************************************)
(* Claims about the output list                                            *)
(***************************************************************************)
ValidIndices(outs) == 0..(Len(outs) - 1)

IsCall(op, name) == op.name = name

\* C1: through the form's controls the output list is never empty and the
\* preview index is always a valid index into it.
C1_ListNonEmptyActiveValid ==
    /\ Len(outputs) >= 1
    /\ previewIndex \in ValidIndices(outputs)

\* C1 witness: Remove has been clicked down to a single entry.
C1_Witness ==
    /\ IsCall(lastOp, "removeOutput")
    /\ Len(outputs) = 1
    /\ previewIndex = 0

\* C2: addOutput keeps the old entries in order, appends the default entry
\* and points the preview index at it (the old length).
C2_AddAppendsDefaultAndActivates ==
    [][IsCall(lastOp', "addOutput") =>
        /\ Len(outputs') = Len(outputs) + 1
        /\ \A k \in 1..Len(outputs) : outputs'[k] = outputs[k]
        /\ outputs'[Len(outputs')] = [width |-> 512, height |-> 512, format |-> "png"]
        /\ previewIndex' = Len(outputs)]_vars

\* C2 witness: an entry was appended behind an edited entry while the preview
\* index pointed elsewhere before.
C2_Witness ==
    /\ IsCall(lastOp, "addOutput")
    /\ Len(outputs) = 3
    /\ outputs[1].width = 0
    /\ previewIndex = 2

\* C3: removeOutput(index), index valid, length N > 1: exactly that entry is
\* removed, the others keep their order, the preview index becomes
\* max(0, min(previous, N - 2)); removing the previewed entry leaves
\* min(previous, N - 2), a valid index of the new list.
C3_RemoveValidIndex ==
    [][(/\ IsCall(lastOp', "removeOutput")
        /\ lastOp'.index \in ValidIndices(outputs)
        /\ Len(outputs) > 1) =>
        LET N == Len(outputs)
            index == lastOp'.index
        IN  /\ Len(outputs') = N - 1
            /\ \A k \in 1..(N - 1) :
                   outputs'[k] = outputs[IF k - 1 < index THEN k ELSE k + 1]
            /\ previewIndex' = Max(0, Min(previewIndex, N - 2))
            /\ (index = previewIndex =>
                   /\ previewIndex' = Min(previewIndex, N - 2)
                   /\ previewIndex' \in ValidIndices(outputs'))]_vars

\* C3 witness: the previewed entry was the last of three and was removed.
C3_Witness ==
    /\ IsCall(lastOp, "removeOutput")
    /\ lastOp.index = 2
    /\ Len(outputs) = 2
    /\ previewIndex = 1

OutOfRange(index, outs) == index \notin ValidIndices(outs)

C6_RemoveOutOfRangeChangesNothing ==
    [][(/\ IsCall(lastOp', "removeOutput")
        /\ OutOfRange(lastOp'.index, outputs)) =>
        /\ outputs' = outputs
        /\ previewIndex' = previewIndex]_vars

\* C7: updateOutput with a valid index changes only the supplied fields of
\* that entry: length, order, the other entries, the entry's other fields
\* and the preview index stay.
C7_UpdateFrame ==
    [][(/\ IsCall(lastOp', "updateOutput")
        /\ lastOp'.index \in ValidIndices(outputs)) =>
        LET at == lastOp'.index + 1
            patch == lastOp'.patch
        IN  /\ Len(outputs') = Len(outputs)
            /\ \A k \in 1..Len(outputs) : k # at => outputs'[k] = outputs[k]
            /\ DOMAIN outputs'[at] = Fields
            /\ \A f \in Fields \ DOMAIN patch : outputs'[at][f] = outputs[at][f]
            /\ \A f \in DOMAIN patch : outputs'[at][f] = patch[f]
            /\ previewIndex' = previewIndex]_vars

\* C7 witness: only the width of the second entry was patched, after its
\* height and format had been edited, while the first entry is previewed.
C7_Witness ==
    /\ IsCall(lastOp, "updateOutput")
    /\ lastOp.index = 1
    /\ DOMAIN lastOp.patch = {"width"}
    /\ Len(outputs) = 2
    /\ outputs[1] = DefaultOutput
    /\ outputs[2] = [width |-> 0, height |-> 9000, format |-> "webp"]
    /\ previewIndex = 0

(***************************************************************************)
(* Claims about the geometry                                               *)
(***************************************************************************)
\* the step is the onload of the k-th pending Image
Delivered(k) ==
    /\ IsCall(lastOp', "onload")
    /\ k \in 1..Len(pending)
    /\ pending' = RemoveAt(pending, k)

TargetInRange(c) ==
    /\ c.width \in 1..8000
    /\ c.height \in 1..8000

\* C8: with maintainAspect and cover, the drawn rectangle is at least as wide
\* and as high as the target, equal to it in one dimension, and covers the
\* whole target.
C8_CoverCoversTarget ==
    [][\A k \in 1..Len(pending) :
        (Delivered(k) /\ pending[k].maintainAspect /\ pending[k].fit = "cover") =>
            LET c == canvas'
            IN  /\ TargetInRange(c)
                /\ c.drawW >= c.width
                /\ c.drawH >= c.height
                /\ (c.drawW = c.width \/ c.drawH = c.height)
                /\ c.dx <= 0
                /\ c.dy <= 0
                /\ c.dx + c.drawW >= c.width
                /\ c.dy + c.drawH >= c.height]_vars

\* C8 witness: a source twice as wide as high was drawn over a 512 x 512
\* target with cover.
C8_Witness ==
    /\ IsCall(lastOp, "onload")
    /\ maintainAspect
    /\ fit = "cover"
    /\ canvas = [drawn |-> TRUE, width |-> 512, height |-> 512,
                 dx |-> -256, dy |-> 0, drawW |-> 1024, drawH |-> 512]

\* C9: with maintainAspect and contain, the drawn rectangle lies inside the
\* target and equals it in one dimension.
C9_ContainFitsInsideTarget ==
    [][\A k \in 1..Len(pending) :
        (Delivered(k) /\ pending[k].maintainAspect /\ pending[k].fit = "contain") =>
            LET c == canvas'
            IN  /\ TargetInRange(c)
                /\ c.dx >= 0
                /\ c.dy >= 0
                /\ c.dx + c.drawW <= c.width
                /\ c.dy + c.drawH <= c.height
                /\ (c.drawW = c.width \/ c.drawH = c.height)]_vars

\* C9 witness: a source twice as wide as high was drawn into a 512 x 512
\* target with contain.
C9_Witness ==
    /\ IsCall(lastOp, "onload")
    /\ maintainAspect
    /\ fit = "contain"
    /\ canvas = [drawn |-> TRUE, width |-> 512, height |-> 512,
                 dx |-> 0, dy |-> 128, drawW |-> 512, drawH |-> 256]

\* C10: for every policy (stretch, cover, contain) the drawn width and the
\* drawn height are at least 1.
C10_DrawSizePositive ==
    [][\A k \in 1..Len(pending) :
        Delivered(k) => (canvas'.drawW >= 1 /\ canvas'.drawH >= 1)]_vars

\* C11: with maintainAspect false the image is drawn over the whole target,
\* drawW = target width, drawH = target height, dx = 0, dy = 0, whatever
\* the source size and the stored fit.
C11_StretchFillsTarget ==
    [][\A k \in 1..Len(pending) :
        (Delivered(k) /\ ~pending[k].maintainAspect) =>
            LET c == canvas'
            IN  /\ TargetInRange(c)
                /\ c.drawW = c.width
                /\ c.drawH = c.height
                /\ c.dx = 0
                /\ c.dy = 0]_vars

\* C11 witness: a source of another aspect ratio was stretched over an
\* 800 x 600 target while fit stored "cover".
C11_Witness ==
    /\ IsCall(lastOp, "onload")
    /\ ~maintainAspect
    /\ fit = "cover"
    /\ canvas = [drawn |-> TRUE, width |-> 800, height |-> 600,
                 dx |-> 0, dy |-> 0, drawW |-> 800, drawH |-> 600]

OtherFit(fitMode) == IF fitMode = "cover" THEN "contain" ELSE "cover"

EqualAspect(c) ==
    c.srcW * TargetDim(c.spec.height) = TargetDim(c.spec.width) * c.srcH

\* C12: when source and target have the same aspect ratio
\* (srcW * targetH = targetW * srcH), what onload draws with the closure's
\* fit is what it would draw with the other fit, in all four components.
C12_CoverEqualsContainOnEqualAspect ==
    [][\A k \in 1..Len(pending) :
        (Delivered(k) /\ pending[k].maintainAspect /\ EqualAspect(pending[k])) =>
            canvas' = Painted([pending[k] EXCEPT !.fit = OtherFit(@)])]_vars

\* the scaled dimension and the branch in exact integer arithmetic
RefCeilDiv(a, b) == -((-a) \div b)
RefFloorDiv(a, b) == a \div b

RefGeometry(srcW, srcH, targetW, targetH, fitMode) ==
    LET wider == srcW * targetH > targetW * srcH
    IN  IF fitMode = "cover"
        THEN IF wider
             THEN LET drawW == RefCeilDiv(targetH * srcW, srcH)
                  IN  Rect((targetW - drawW) \div 2, 0, drawW, targetH)
             ELSE LET drawH == RefCeilDiv(targetW * srcH, srcW)
                  IN  Rect(0, (targetH - drawH) \div 2, targetW, drawH)
        ELSE IF wider
             THEN LET drawH == RefFloorDiv(targetW * srcH, srcW)
                  IN  Rect(0, (targetH - drawH) \div 2, targetW, drawH)
             ELSE LET drawW == RefFloorDiv(targetH * srcW, srcH)
                  IN  Rect((targetW - drawW) \div 2, 0, drawW, targetH)

\* C13: with maintainAspect the drawn rectangle is the one of the reference
\* rule: branch by srcW/srcH > targetW/targetH (strict), ceil of the scaled
\* dimension for cover and floor for contain, offset floor((target - draw)/2)
\* on the scaled axis and 0 on the other.
C13_GeometryMatchesReference ==
    [][\A k \in 1..Len(pending) :
        (Delivered(k) /\ pending[k].maintainAspect) =>
            LET cl == pending[k]
                c == canvas'
            IN  Rect(c.dx, c.dy, c.drawW, c.drawH)
                    = RefGeometry(cl.srcW, cl.srcH, c.width, c.height, cl.fit)]_vars

Clamped(v) == IF v < 1 THEN 1 ELSE IF v > 8000 THEN 8000 ELSE v

\* C17: the canvas is sized to the stored width and height clamped to
\* [1, 8000] (a stored value inside the range is used as it is), and onload
\* leaves the stored entries as they were.
C17_TargetIsStoredValueClamped ==
    [][\A k \in 1..Len(pending) :
        Delivered(k) =>
            /\ canvas'.width = Clamped(pending[k].spec.width)
            /\ canvas'.height = Clamped(pending[k].spec.height)
            /\ outputs' = outputs]_vars

\* C17 witness: a stored width of -3 and a stored height of 9000 were drawn
\* on a 1 x 8000 canvas and are still stored.
C17_Witness ==
    /\ IsCall(lastOp, "onload")
    /\ outputs[1].width = -3
    /\ outputs[1].height = 9000
    /\ canvas.drawn
    /\ canvas.width = 1
    /\ canvas.height = 8000

\* C20: removeOutput(index) of a valid index other than the preview index,
\* length > 1, leaves the previewed entry the same: the entry at the new
\* preview index equals the entry at the old preview index.
C20_RemovingOtherKeepsPreviewedEntry ==
    [][(/\ IsCall(lastOp', "removeOutput")
        /\ Len(outputs) > 1
        /\ previewIndex \in ValidIndices(outputs)
        /\ lastOp'.index \in ValidIndices(outputs)
        /\ lastOp'.index # previewIndex) =>
            /\ previewIndex' \in ValidIndices(outputs')
            /\ outputs'[previewIndex' + 1] = outputs[previewIndex + 1]]_vars

(***************************************************************************)
(* Claims about the preview refresh and the object URLs                    *)
(***************************************************************************)
\* the Image was created by an effect run that is not the latest one
Superseded(img) == img.run < effects

\* C14: the onload of an Image that a later effect run has superseded (a
\* new file was selected, or the list, the preview index, maintainAspect or
\* fit changed) does not write to the canvas.
C14_SupersededLoadIgnored ==
    [][\A k \in 1..Len(pending) :
        (Delivered(k) /\ Superseded(pending[k])) => canvas' = canvas]_vars

\* what onload draws from the values of the current render
CurrentPaint ==
    Painted(Closure(outputs[previewIndex + 1], maintainAspect, fit,
                    file.width, file.height))

\* C15: once every pending load event has been delivered, the canvas has the
\* size and the drawn rectangle computed from the current file, list,
\* preview index, maintainAspect and fit.
C15_SettledCanvasShowsCurrentInputs ==
    (/\ mounted
     /\ effects > 0
     /\ pending = <<>>
     /\ file # NoFile
     /\ previewIndex \in ValidIndices(outputs)) => canvas = CurrentPaint

\* C16: every object URL made for a selected file is revoked at most once,
\* and is unrevoked exactly while it is the current URL of the mounted
\* component: a replaced URL and, after the unmount, every URL has been
\* revoked exactly once.
C16_EveryUrlRevokedOnce ==
    \A u \in 1..Len(urls) :
        /\ urls[u] <= 1
        /\ urls[u] = 0 <=> (mounted /\ u = imageUrl)

\* C16 witness: two files were selected one after the other and the
\* component was unmounted; both URLs are revoked once.
C16_Witness ==
    /\ IsCall(lastOp, "unmount")
    /\ ~mounted
    /\ urls = <<1, 1>>

(***************************************************************************)
(* Claims about Generate & Download                                        *)
(***************************************************************************)
\* C18: handleGenerate with no file selected or with an empty list sends no
\* request, shows one alert, and leaves file, outputs, previewIndex,
\* maintainAspect and fit as they were.
C18_InvalidGenerateSendsNothing ==
    [][(IsCall(lastOp', "handleGenerate") /\ (file = NoFile \/ Len(outputs) = 0)) =>
        /\ inflight' = inflight
        /\ downloads' = downloads
        /\ Len(notices') = Len(notices) + 1
        /\ SubSeq(notices', 1, Len(notices)) = notices
        /\ notices'[Len(notices')] \in
              {"Please upload a file first", "Please add at least one output"}
        /\ UNCHANGED <<file, outputs, previewIndex, maintainAspect, fit>>]_vars

\* C18 witness: Generate was clicked with a file selected and the list
\* emptied; the alert about the outputs was shown and nothing was sent.
C18_Witness ==
    /\ IsCall(lastOp, "handleGenerate")
    /\ file # NoFile
    /\ outputs = <<>>
    /\ inflight = <<>>
    /\ notices = <<"Please add at least one output">>

\* C19: when a generate request fails, by a non-success response or by the
\* fetch itself failing, one failure notice is shown, no download starts
\* and the request is not sent again.
C19_TransportFailureShowsNotice ==
    [][(IsCall(lastOp', "responseNotOk") \/ IsCall(lastOp', "fetchRejected")) =>
        /\ Len(notices') = Len(notices) + 1
        /\ SubSeq(notices', 1, Len(notices)) = notices
        /\ downloads' = downloads
        /\ Len(inflight') = Len(inflight) - 1]_vars

====
